---- MODULE Spec2Model ----
(***************************************************************************)
(* Model of gif-tools (GifShape): the App component's upload / export /    *)
(* reset handlers (src/App.tsx 7-216), the size-constrained export loop of *)
(* handleExport (104-201) and the frame pipeline of processGifRobust       *)
(* (529-655).                                                              *)
(*                                                                         *)
(* Two specifications share this module.                                   *)
(*   Spec      the application: uploads, exports (each export invocation   *)
(*             is an asynchronous run with its own closure), reset, the    *)
(*             size settings.  A frame is kept as its delay and placement; *)
(*             the encoder is handed, per attempt, the target dimensions,  *)
(*             the quality and the (index, delay) list of emitted frames.  *)
(*   FrameSpec one call of processGifRobust at pixel level: the full       *)
(*             canvas, the export canvas and the bitmaps added to the GIF. *)
(*                                                                         *)
(* Sizes: blob.size / (1024*1024) and maxFileSize are both in MB; the      *)
(* model keeps blob sizes as whole numbers of MB, so sizeMB = blob.size.   *)
(* Math.floor(w * Math.sqrt(r)) is computed exactly over the rationals     *)
(* (largest n with n*n <= w*w*r).                                          *)
(***************************************************************************)
EXTENDS Integers, Sequences, FiniteSets, TLC

\* ------------------------------------------------------------------ bounds
MaxEvents == 4       \* user events (uploads, clicks, settings) per behaviour

\* ------------------------------------------------------- program constants
\* mutant: one attempt more
MAX_ATTEMPTS_Six == 5 + 1
MAX_ATTEMPTS == 5
\* mutant: a lower floor
MinDim_Sixteen == 32 \div 2
MinDim == 32
currentSkip == 1
InitialQuality == 10
DefaultMaxFileSize == 5

IDLE == "IDLE"
DRAGGING == "DRAGGING"
PROCESSING == "PROCESSING"
COMPLETED == "COMPLETED"
ToolState == {IDLE, DRAGGING, PROCESSING, COMPLETED}

Null == "null"

\* ---------------------------------------------------------------- helpers
Max(a, b) == IF a >= b THEN a ELSE b
Min(a, b) == IF a <= b THEN a ELSE b
Last(s) == s[Len(s)]

RECURSIVE ISqrtIn(_, _, _)
\* largest n in lo..hi with n*n <= q (binary search; needs lo*lo <= q)
ISqrtIn(lo, hi, q) ==
    IF lo >= hi THEN lo
    ELSE LET mid == (lo + hi + 1) \div 2
         IN IF mid * mid <= q THEN ISqrtIn(mid, hi, q) ELSE ISqrtIn(lo, mid - 1, q)

\* Math.floor(Math.sqrt(q)) for 0 <= q < 2^31
ISqrt(q) == ISqrtIn(0, 46340, q)

\* ------------------------------------------------------------ input files
\* What the decoder (loadGifFrames: parseGIF + decompressFrames) returns for
\* each file the user may pick.  Frames carry the delay and the placement;
\* the first frame's placement gives the canvas size (App.tsx 73-77).
Frame(d, w, h) == [delay |-> d, dims |-> [width |-> w, height |-> h, top |-> 0, left |-> 0]]

GifFiles == {"wide.gif", "photo.gif", "strip.gif", "empty.gif", "bad.gif"}
Files == GifFiles \cup {"note.txt"}

FileType(f) == IF f \in GifFiles THEN "image/gif" ELSE "text/plain"
DecodeFails(f) == f = "bad.gif"

loadGifFrames(f) ==
    CASE f = "photo.gif" -> << Frame(100, 48, 48), Frame(100, 48, 48) >>
      [] f = "wide.gif"  -> << Frame(40, 400, 32), Frame(70, 400, 32), Frame(20, 400, 32) >>
      [] f = "strip.gif" -> << Frame(50, 96, 16) >>
      [] OTHER           -> << >>

\* ------------------------------------------------------------------ state
VARIABLES
    gifFile, frames, originalUrl, processedUrl, points, dims, status,
    progress, error, finalSizeMB,
    limitFileSize, maxFileSize,
    uploads,        \* files whose loadGifFrames promise is pending
    nEvents,        \* user events dispatched so far
    runs            \* one record per handleExport invocation: its closure
                    \* (frames, points, dims, size settings), its locals, the
                    \* job the encoder is working on (gif), whether every
                    \* blob so far had the linear stub's size, whether every
                    \* attempt so far was smaller in both dimensions than
                    \* the one before, and how the invocation ended

appVars == << gifFile, frames, originalUrl, processedUrl, points, dims, status,
              progress, error, finalSizeMB,
              limitFileSize, maxFileSize, uploads, nEvents, runs >>

\* state of one processGifRobust call followed at pixel level (FrameSpec)
VARIABLES
    args,           \* the call's arguments
    pc,             \* "idle", "fetch", "loop", "render", "done"
    i,              \* loop variable of the frame loop
    frameIndex,
    fullCanvas, exportCanvas,
    gifFrames,      \* frames added to the GIF: bitmap copy, delay, raw index
    reported,       \* values passed to onProgress, as << numerator, denominator >>
    calls,          \* the calls that have returned: arguments, GIF options
                    \* and the frames handed to the encoder
    suspended       \* other calls waiting at an await (worker script or
                    \* encoder): arguments, position, GIF frames, progress

frameVars == << args, pc, i, frameIndex, fullCanvas, exportCanvas, gifFrames, reported,
               calls, suspended >>

\* state of the polygon editor followed event by event (EditorSpec)
VARIABLES
    activePointId,  \* the editor's state of that name
    rendered,       \* the render the editor's handlers belong to: the points
                    \* prop and the activePointId they closed over
    uuids           \* ids handed out by crypto.randomUUID so far

editorVars == << activePointId, rendered, uuids >>

vars == << appVars, frameVars, editorVars >>

\* ---------------------------------------------------- encoder (gif.js stub)
\* The encoder is an external collaborator: for a job of w x h pixels it
\* answers with a blob whose size is one of EncoderSizes(w, h).
\* LinearSize is the stub "bytes = k * width * height" with k = 1; the other
\* size is within every budget the model offers.
LinearSize(w, h) == w * h
EncoderSizes(w, h) == {LinearSize(w, h), 1}
Budgets == {1400}

\* ------------------------------------------- processGifRobust, frame list
\* mutant: a kept frame carries its own delay only
SumDelays_OwnDelayOnly(rawFrames, n, j, frameSkip) == rawFrames[n + 1].delay

RECURSIVE SumDelays(_, _, _, _)
\* App.tsx 607-610: delay of raw frame n plus the skipped frames after it
SumDelays(rawFrames, n, j, frameSkip) ==
    IF j < frameSkip /\ n + j < Len(rawFrames)
    THEN rawFrames[n + j + 1].delay + SumDelays(rawFrames, n, j + 1, frameSkip)
    ELSE 0

\* mutant: stride off by one
Kept_StrideOffByOne(n, frameSkip) == n % (frameSkip + 1) = 0

\* App.tsx 605: raw frame n (0-based) is kept
Kept(n, frameSkip) == n % frameSkip = 0

RECURSIVE FrameLoop(_, _, _, _)
\* App.tsx 579-645 restricted to what gif.addFrame receives besides the
\* bitmap: the (0-based) raw index the frame was taken at and its delay.
FrameLoop(rawFrames, frameSkip, n, added) ==
    IF n >= Len(rawFrames) THEN added
    ELSE FrameLoop(rawFrames, frameSkip, n + 1,
                   IF Kept(n, frameSkip)
                   THEN Append(added, [index |-> n,
                                       delay |-> SumDelays(rawFrames, n, 0, frameSkip)])
                   ELSE added)

\* the job handed to the encoder by one call of processGifRobust
GifJob(rawFrames, targetWidth, targetHeight, frameSkip, quality) ==
    [width |-> targetWidth, height |-> targetHeight, quality |-> quality,
     frames |-> FrameLoop(rawFrames, frameSkip, 0, << >>)]

\* ------------------------------------------------- handleExport, rescaling
\* mutant: the 0.9 safety margin is left out
ScaleRaw_NoMargin(cur, budget, sizeMB) ==
    ISqrt((budget * cur * cur) \div sizeMB)

\* App.tsx 151-156: Math.floor(cur * Math.sqrt(maxFileSize / sizeMB * 0.9)),
\* the largest n with n * n <= cur * cur * 9 * budget / (10 * sizeMB)
ScaleRaw(cur, budget, sizeMB) ==
    ISqrt((9 * budget * cur * cur) \div (10 * sizeMB))

\* mutant: the scaled dimension is rounded up
ScaleDim_RoundsUp(cur, budget, sizeMB) ==
    Max(MinDim, ScaleRaw(cur, budget, sizeMB) + 1)

\* App.tsx 164-165: Math.max(32, Math.floor(cur * scaleFactor))
ScaleDim(cur, budget, sizeMB) ==
    Max(MinDim, ScaleRaw(cur, budget, sizeMB))

\* mutant: the third branch repeats the second
NextQuality_NoDesperatePass(attempt) ==
    IF attempt = 1 THEN 15 ELSE 20

\* App.tsx 167-179
NextQuality(attempt) ==
    IF attempt = 1 THEN 15 ELSE IF attempt = 2 THEN 20 ELSE 30

\* mutant: the size is compared even when no limit is configured
WithinLimit_IgnoresSwitch(limit, budget, sizeMB) == sizeMB <= budget

\* App.tsx 141
WithinLimit(limit, budget, sizeMB) == ~limit \/ sizeMB <= budget

\* App.tsx 184: the safety break tested on the already clamped dimensions
TooSmall(w, h) == w < MinDim \/ h < MinDim

\* ------------------------------------------------------------ app helpers
\* Editor effect (unnamed/part_000 64-75) is pending: the editor is mounted
\* (App.tsx 306-311) and has not installed its initial polygon yet.  React
\* flushes such effects before it dispatches the next user event.
EditorMounted ==
    /\ status \in {DRAGGING, COMPLETED}
    /\ originalUrl # Null
    /\ dims # << >>
    /\ processedUrl = << >>

EffectsPending ==
    /\ EditorMounted
    /\ Len(points) = 0
    /\ dims[1].width > 0 /\ dims[1].height > 0

\* coordinates are kept in tenths of a pixel (padding = min(w, h) * 0.2)
InitialPoints(width, height) ==
    LET padding == Min(width, height) * 2
    IN << [id |-> "1", x |-> width * 5,             y |-> padding],
          [id |-> "2", x |-> width * 10 - padding,  y |-> height * 5],
          [id |-> "3", x |-> width * 5,             y |-> height * 10 - padding],
          [id |-> "4", x |-> padding,               y |-> height * 5] >>

SidebarVisible == status # IDLE /\ processedUrl = << >>

\* one more user event is dispatched
UserEvent == nEvents < MaxEvents /\ nEvents' = nEvents + 1

\* ------------------------------------------------------------------- Init
AppInit ==
    /\ gifFile = Null
    /\ frames = << >>
    /\ originalUrl = Null
    /\ processedUrl = << >>
    /\ points = << >>
    /\ dims = << >>
    /\ status = IDLE
    /\ progress = << 0, 1 >>
    /\ error = Null
    /\ finalSizeMB = 0
    /\ limitFileSize = FALSE
    /\ maxFileSize = DefaultMaxFileSize
    /\ uploads = {}
    /\ nEvents = 0
    /\ runs = << >>

\* ----------------------------------------------------------------- upload
\* App.tsx 47-68: the synchronous part of handleFileUpload, up to the await.
\* The file input is rendered only in the IDLE panel (App.tsx 277-293).
handleFileUpload(file) ==
    /\ UNCHANGED << frameVars, editorVars >>
    /\ status = IDLE
    /\ UserEvent
    /\ IF FileType(file) # "image/gif"
       THEN /\ error' = "Please upload a valid GIF file."
            /\ UNCHANGED << gifFile, status, progress, processedUrl,
                            points, finalSizeMB, originalUrl, uploads >>
       ELSE /\ gifFile' = file
            /\ error' = Null
            /\ status' = PROCESSING
            /\ progress' = << 1, 10 >>
            /\ processedUrl' = << >>
            /\ points' = << >>
            /\ finalSizeMB' = 0
            /\ originalUrl' = file
            /\ uploads' = uploads \cup {file}
    /\ UNCHANGED << frames, dims, limitFileSize, maxFileSize, runs >>

\* App.tsx 70-80: loadGifFrames resolved
UploadParsed(file) ==
    /\ UNCHANGED << frameVars, editorVars >>
    /\ file \in uploads
    /\ ~DecodeFails(file)
    /\ uploads' = uploads \ {file}
    /\ LET parsedFrames == loadGifFrames(file)
       IN /\ frames' = parsedFrames
          /\ dims' = IF Len(parsedFrames) > 0
                     THEN << [width  |-> parsedFrames[1].dims.width,
                              height |-> parsedFrames[1].dims.height] >>
                     ELSE dims
    /\ status' = DRAGGING
    /\ progress' = << 0, 1 >>
    /\ UNCHANGED << gifFile, originalUrl, processedUrl, points, error,
                    finalSizeMB, limitFileSize, maxFileSize, nEvents, runs >>

\* App.tsx 81-85: loadGifFrames rejected
UploadFailed(file) ==
    /\ UNCHANGED << frameVars, editorVars >>
    /\ file \in uploads
    /\ DecodeFails(file)
    /\ uploads' = uploads \ {file}
    /\ error' = "Failed to parse GIF. Try a different file."
    /\ status' = IDLE
    /\ UNCHANGED << gifFile, frames, originalUrl, processedUrl, points, dims, progress,
                    finalSizeMB, limitFileSize, maxFileSize, nEvents, runs >>

\* unnamed/part_000 64-75: the effect that installs the initial 4-point polygon
EditorInitPoints ==
    /\ UNCHANGED << frameVars, editorVars >>
    /\ EffectsPending
    /\ points' = InitialPoints(dims[1].width, dims[1].height)
    /\ UNCHANGED << gifFile, frames, originalUrl, processedUrl, dims, status, progress,
                    error, finalSizeMB, limitFileSize, maxFileSize,
                    uploads, nEvents, runs >>

\* --------------------------------------------------------------- settings
\* App.tsx 461
setLimitFileSize(checked) ==
    /\ UNCHANGED << frameVars, editorVars >>
    /\ SidebarVisible /\ ~EffectsPending
    /\ UserEvent
    /\ limitFileSize # checked
    /\ limitFileSize' = checked
    /\ UNCHANGED << gifFile, frames, originalUrl, processedUrl, points, dims, status,
                    progress, error, finalSizeMB, maxFileSize,
                    uploads, runs >>

\* App.tsx 466-474: the input is rendered only while the limit is switched on
setMaxFileSize(value) ==
    /\ UNCHANGED << frameVars, editorVars >>
    /\ SidebarVisible /\ ~EffectsPending
    /\ UserEvent
    /\ limitFileSize
    /\ maxFileSize # value
    /\ maxFileSize' = value
    /\ UNCHANGED << gifFile, frames, originalUrl, processedUrl, points, dims, status,
                    progress, error, finalSizeMB, limitFileSize,
                    uploads, runs >>

\* ----------------------------------------------------------------- export
\* handleExport has returned: its closure and locals are gone, only the way
\* it ended is kept
Returned(outcome) ==
    [pc |-> "done", attempt |-> 0, currentW |-> 0, currentH |-> 0, currentQuality |-> 0,
     frames |-> << >>, points |-> << >>, dims |-> [width |-> 0, height |-> 0],
     limitFileSize |-> FALSE, maxFileSize |-> 0,
     gif |-> << >>, linear |-> TRUE, shrank |-> TRUE, outcome |-> outcome]

\* App.tsx 104-125: handleExport up to its first suspension (the await inside
\* processGifRobust, line 540).  The closure keeps the frames, points, dims
\* and size settings of the render the click was dispatched to.
handleExport ==
    /\ UNCHANGED << frameVars, editorVars >>
    /\ SidebarVisible /\ ~EffectsPending
    /\ UserEvent
    /\ dims # << >> /\ Len(frames) # 0
    /\ status' = PROCESSING
    /\ progress' = << 0, 1 >>
    /\ runs' = Append(runs,
          [pc |-> "fetch", attempt |-> 1,
           currentW |-> dims[1].width, currentH |-> dims[1].height,
           currentQuality |-> InitialQuality,
           frames |-> frames, points |-> points, dims |-> dims[1],
           limitFileSize |-> limitFileSize, maxFileSize |-> maxFileSize,
           gif |-> << >>, linear |-> TRUE, shrank |-> TRUE, outcome |-> "NONE"])
    /\ UNCHANGED << gifFile, frames, originalUrl, processedUrl, points, dims, error,
                    finalSizeMB, limitFileSize, maxFileSize, uploads >>

\* mutant: the next attempt is counted as started while this one is encoding
processGifRobust_Speculative(r) ==
    /\ UNCHANGED << frameVars, editorVars >>
    /\ r \in 1..Len(runs)
    /\ runs[r].pc = "fetch"
    /\ runs' = [runs EXCEPT ![r].pc = "render",
                            ![r].attempt = Min(@ + 1, MAX_ATTEMPTS),
                            ![r].gif = << GifJob(runs[r].frames, runs[r].currentW,
                                                 runs[r].currentH, currentSkip,
                                                 runs[r].currentQuality) >>]
    /\ progress' = << 1, 1 >>
    /\ UNCHANGED << gifFile, frames, originalUrl, processedUrl, points, dims, status,
                    error, finalSizeMB, limitFileSize, maxFileSize,
                    uploads, nEvents >>

\* App.tsx 540-654: processGifRobust after the worker script arrived: the GIF
\* object, the canvases, the synchronous frame loop (which reports progress,
\* last 1.0) and gif.render().
processGifRobust(r) ==
    /\ UNCHANGED << frameVars, editorVars >>
    /\ r \in 1..Len(runs)
    /\ runs[r].pc = "fetch"
    /\ runs' = [runs EXCEPT ![r].pc = "render",
                            ![r].gif = << GifJob(runs[r].frames, runs[r].currentW,
                                                 runs[r].currentH, currentSkip,
                                                 runs[r].currentQuality) >>]
    /\ progress' = << 1, 1 >>
    /\ UNCHANGED << gifFile, frames, originalUrl, processedUrl, points, dims, status,
                    error, finalSizeMB, limitFileSize, maxFileSize,
                    uploads, nEvents >>

\* App.tsx 196-200: processGifRobust threw (worker script fetch failed, line
\* 511, no 2d context, lines 557-571, or the encoder threw in new GIF,
\* gif.addFrame or gif.render, lines 542, 640, 653); handleExport's catch
\* block.
ExportFailed(r) ==
    /\ UNCHANGED << frameVars, editorVars >>
    /\ r \in 1..Len(runs)
    /\ runs[r].pc = "fetch"
    /\ runs' = [runs EXCEPT ![r] = Returned("ERROR")]
    /\ error' = "Failed to generate GIF."
    /\ status' = DRAGGING
    /\ UNCHANGED << gifFile, frames, originalUrl, processedUrl, points, dims, progress,
                    finalSizeMB, limitFileSize, maxFileSize,
                    uploads, nEvents >>

\* App.tsx 137-194: handleExport resumes with the blob of the attempt,
\* evaluates it and either publishes it, starts the next attempt or leaves
\* the loop.
Evaluate(r, sizeMB) ==
    /\ LET run    == runs[r]
           job    == run.gif[1]
           blob   == [run |-> r, attempt |-> run.attempt, size |-> sizeMB,
                      width |-> job.width, height |-> job.height,
                      quality |-> job.quality, frames |-> job.frames]
           newW   == ScaleDim(run.currentW, run.maxFileSize, sizeMB)
           newH   == ScaleDim(run.currentH, run.maxFileSize, sizeMB)
           newQ   == NextQuality(run.attempt)
       IN /\ finalSizeMB' = sizeMB
          /\ IF WithinLimit(run.limitFileSize, run.maxFileSize, sizeMB)
             THEN /\ processedUrl' = << blob >>
                  /\ status' = COMPLETED
                  /\ runs' = [runs EXCEPT ![r] = Returned("ACCEPTED")]
                  /\ UNCHANGED error
             ELSE IF TooSmall(newW, newH)
             THEN /\ processedUrl' = << blob >>
                  /\ status' = COMPLETED
                  /\ runs' = [runs EXCEPT ![r] = Returned("BEST_EFFORT")]
                  /\ UNCHANGED error
             ELSE IF run.attempt < MAX_ATTEMPTS
             THEN /\ runs' = [runs EXCEPT ![r] =
                                [run EXCEPT !.pc = "fetch",
                                            !.attempt = @ + 1,
                                            !.currentW = newW, !.currentH = newH,
                                            !.currentQuality = newQ,
                                            !.gif = << >>,
                                            !.linear = @ /\ sizeMB = LinearSize(job.width, job.height),
                                            !.shrank = @ /\ newW < run.currentW /\ newH < run.currentH]]
                  /\ UNCHANGED << processedUrl, status, error >>
             ELSE /\ error' = "Could not compress to target size. Returning best effort."
                  /\ runs' = [runs EXCEPT ![r] = Returned("GAVE_UP")]
                  /\ UNCHANGED << processedUrl, status >>
    /\ UNCHANGED << gifFile, frames, originalUrl, points, dims, progress,
                    limitFileSize, maxFileSize, uploads, nEvents >>

\* App.tsx 650-652: the encoder finished the job of run r with a blob
EncodeFinished(r) ==
    /\ UNCHANGED << frameVars, editorVars >>
    /\ r \in 1 .. Len(runs)
    /\ runs[r].pc = "render"
    /\ \E sizeMB \in EncoderSizes(runs[r].gif[1].width, runs[r].gif[1].height) :
          Evaluate(r, sizeMB)

\* App.tsx 649-654: the encoder fails while rendering (a worker dies, the
\* render is aborted).  Only 'finished' has a listener and reject is never
\* called, so the promise stays pending and handleExport never resumes.
Hung ==
    [Returned("NONE") EXCEPT !.pc = "hung"]

EncodeFailed(r) ==
    /\ UNCHANGED << frameVars, editorVars >>
    /\ r \in 1 .. Len(runs)
    /\ runs[r].pc = "render"
    /\ runs' = [runs EXCEPT ![r] = Hung]
    /\ UNCHANGED << gifFile, frames, originalUrl, processedUrl, points, dims, status,
                    progress, error, finalSizeMB, limitFileSize, maxFileSize,
                    uploads, nEvents >>

\* ------------------------------------------------------ reset, keep editing
\* App.tsx 203-216; the button is rendered while status is not IDLE (232)
reset ==
    /\ UNCHANGED << frameVars, editorVars >>
    /\ status # IDLE /\ ~EffectsPending
    /\ UserEvent
    /\ gifFile' = Null
    /\ frames' = << >>
    /\ originalUrl' = Null
    /\ processedUrl' = << >>
    /\ points' = << >>
    /\ dims' = << >>
    /\ status' = IDLE
    /\ finalSizeMB' = 0
    /\ error' = Null
    /\ UNCHANGED << progress, limitFileSize, maxFileSize,
                    uploads, runs >>

\* App.tsx 323: "keep editing" in the result view (306-311)
KeepEditing ==
    /\ UNCHANGED << frameVars, editorVars >>
    /\ status \in {DRAGGING, COMPLETED}
    /\ UserEvent
    /\ originalUrl # Null /\ dims # << >> /\ processedUrl # << >>
    /\ processedUrl' = << >>
    /\ status' = DRAGGING
    /\ UNCHANGED << gifFile, frames, originalUrl, points, dims, progress, error, finalSizeMB, limitFileSize, maxFileSize, uploads, runs >>

\* ======================================================================
\* processGifRobust at pixel level
\* ======================================================================
\* A pixel is Transparent (alpha 0, the state of a fresh canvas) or an opaque
\* RGB value.  Canvases and patches are functions from << x, y >> to pixels.
Transparent == -1
CHROMA_KEY_COLOR_HEX == 65280      \* 0x00FF00
Red == 16711680                    \* 0xFF0000
Blue == 255                        \* 0x0000FF

\* mutant: a canvas of the same size left by an earlier call is reused
Canvas_Stale(w, h) ==
    IF fullCanvas # << >> /\ DOMAIN fullCanvas = (0 .. w - 1) \X (0 .. h - 1)
    THEN fullCanvas
    ELSE [p \in (0 .. w - 1) \X (0 .. h - 1) |-> Transparent]

\* App.tsx 553-563: document.createElement('canvas') with width and height
Canvas(w, h) == [p \in (0 .. w - 1) \X (0 .. h - 1) |-> Transparent]

InRect(p, d) ==
    /\ d.left <= p[1] /\ p[1] < d.left + d.width
    /\ d.top  <= p[2] /\ p[2] < d.top + d.height

\* fullCtx.clearRect(left, top, width, height)
clearRect(canvas, d) ==
    [p \in DOMAIN canvas |-> IF InRect(p, d) THEN Transparent ELSE canvas[p]]

\* mutant: the patch is drawn at the origin instead of its placement offset
drawImage_AtOrigin(canvas, patch, d) ==
    [p \in DOMAIN canvas |->
        IF p[1] < d.width /\ p[2] < d.height /\ patch[p] # Transparent
        THEN patch[p]
        ELSE canvas[p]]

\* fullCtx.drawImage(patchCanvas, left, top): source-over compositing, so a
\* transparent patch pixel leaves the destination pixel as it is
drawImage(canvas, patch, d) ==
    [p \in DOMAIN canvas |->
        IF InRect(p, d) /\ patch[<< p[1] - d.left, p[2] - d.top >>] # Transparent
        THEN patch[<< p[1] - d.left, p[2] - d.top >>]
        ELSE canvas[p]]

\* mutant: the export canvas is not refilled
fillRect_Nothing(canvas, colour) == canvas

\* exportCtx.fillRect(0, 0, targetWidth, targetHeight) with the chroma key
fillRect(canvas, colour) == [p \in DOMAIN canvas |-> colour]

\* --- the clip path.  Coordinates are compared in target space scaled by
\* (2 * originalWidth, 2 * originalHeight), where pixel centres and scaled
\* vertices are integers: centre of target pixel (x, y) is
\* ((2x+1) * ow, (2y+1) * oh), vertex (px, py) is (2 * px * tw, 2 * py * th).
Centre(p, a) == << (2 * p[1] + 1) * a.originalWidth, (2 * p[2] + 1) * a.originalHeight >>
Vertex(pt, a) == << 2 * pt.x * a.targetWidth, 2 * pt.y * a.targetHeight >>

IsLeft(a, b, c) == (b[1] - a[1]) * (c[2] - a[2]) - (c[1] - a[1]) * (b[2] - a[2])

EdgeWinding(a, b, c) ==
    IF a[2] <= c[2]
    THEN IF b[2] > c[2] /\ IsLeft(a, b, c) > 0 THEN 1 ELSE 0
    ELSE IF b[2] <= c[2] /\ IsLeft(a, b, c) < 0 THEN -1 ELSE 0

RECURSIVE Winding(_, _, _, _)
\* winding number of the closed path moveTo(points[0]), lineTo(points[k])...,
\* closePath() around c
Winding(pts, k, c, a) ==
    IF k > Len(pts) THEN 0
    ELSE EdgeWinding(Vertex(pts[k], a), Vertex(pts[(k % Len(pts)) + 1], a), c)
         + Winding(pts, k + 1, c, a)

\* exportCtx.clip() with the default non-zero rule; with no points the path
\* is empty and so is the clip region (App.tsx 623-632)
InsideClip(p, a) ==
    /\ Len(a.points) > 0
    /\ Winding(a.points, 1, Centre(p, a), a) # 0

\* the source pixel drawn at target pixel p under scale(scaleX, scaleY):
\* the pixel of the full canvas that contains the centre of p mapped back
SourcePixel(p, a) ==
    << ((2 * p[1] + 1) * a.originalWidth) \div (2 * a.targetWidth),
       ((2 * p[2] + 1) * a.originalHeight) \div (2 * a.targetHeight) >>

\* App.tsx 614-637: fill with the chroma key, clip to the scaled polygon,
\* draw the full canvas scaled (source-over)
MaskFrame(canvas, full, a) ==
    LET filled == fillRect(canvas, CHROMA_KEY_COLOR_HEX)
    IN [p \in DOMAIN canvas |->
          IF InsideClip(p, a) /\ full[SourcePixel(p, a)] # Transparent
          THEN full[SourcePixel(p, a)]
          ELSE filled[p]]

\* mutant: disposal type 3 restores the canvas to the state before the first
\* frame
Composite_RestoresOnThree(full, frame) ==
    drawImage(IF frame.disposalType = 2 THEN clearRect(full, frame.dims)
              ELSE IF frame.disposalType = 3 THEN [p \in DOMAIN full |-> Transparent]
              ELSE full,
              frame.patch, frame.dims)

\* App.tsx 597-602: disposal handling and compositing of raw frame `frame`
Composite(full, frame) ==
    drawImage(IF frame.disposalType = 2 THEN clearRect(full, frame.dims) ELSE full,
              frame.patch, frame.dims)

\* ------------------------------------------------------ frame-level inputs
MaxFrames == 3       \* longest raw frame sequence of FrameSpec
MaxCalls == 2        \* processGifRobust calls followed in one behaviour
MaxOverlapFrames == 2   \* longest raw frame sequence of OverlapSpec
MaxEditorEvents == 3    \* mouse events followed in EditorSpec

Rect(l, t, w, h) == [left |-> l, top |-> t, width |-> w, height |-> h]
Uniform(w, h, c) == [p \in (0 .. w - 1) \X (0 .. h - 1) |-> c]
\* a patch of colour c whose pixel (0, 0) is transparent
Holed(w, h, c) == [p \in (0 .. w - 1) \X (0 .. h - 1) |-> IF p = << 0, 0 >> THEN Transparent ELSE c]

RawFrame(patch, d, delay, disposal) ==
    [patch |-> patch, dims |-> d, delay |-> delay, disposalType |-> disposal]

\* raw frames of a 3 x 3 animation, as gifuct-js delivers them; disposalType
\* 0 unspecified, 1 none, 2 restore background, 3 restore previous
RawFrames ==
    { RawFrame(Uniform(3, 3, Red),  Rect(0, 0, 3, 3), 10, 2),
      RawFrame(Uniform(1, 1, Blue), Rect(0, 0, 1, 1), 20, 0),
      RawFrame(Holed(2, 2, Blue),   Rect(1, 1, 2, 2), 30, 2),
      RawFrame(Uniform(3, 1, Red),  Rect(0, 2, 3, 1), 20, 3),
      RawFrame(Holed(2, 3, Blue),   Rect(0, 0, 2, 3), 40, 1) }

RawSequences == UNION { [1 .. n -> RawFrames] : n \in 1 .. MaxFrames }

Pt(x, y) == [x |-> x, y |-> y]

\* clip polygons in source coordinates: none, the whole canvas, a triangle,
\* a quadrilateral and a degenerate two-point path
Polygons ==
    { << >>,
      << Pt(0, 0), Pt(3, 0), Pt(3, 3), Pt(0, 3) >>,
      << Pt(0, 0), Pt(3, 0), Pt(0, 2) >>,
      << Pt(1, 0), Pt(3, 1), Pt(2, 3), Pt(0, 2) >>,
      << Pt(0, 0), Pt(3, 3) >> }

TargetSizes == { << 3, 3 >>, << 2, 2 >>, << 4, 3 >> }

\* target sizes of a further call: the source size (first attempt of another
\* export) or a smaller one (next attempt of the size loop)
Retargets == { << 3, 3 >>, << 2, 2 >> }

Calls ==
    { [rawFrames |-> rf, points |-> pts, originalWidth |-> 3, originalHeight |-> 3,
       targetWidth |-> t[1], targetHeight |-> t[2], frameSkip |-> fs, quality |-> InitialQuality] :
      rf \in RawSequences, pts \in Polygons, t \in TargetSizes, fs \in {1, 2} }

\* the calls handleExport makes (frameSkip is currentSkip) with a polygon
\* the editor can deliver (the triangle or the quadrilateral), on short
\* animations
OverlapCalls ==
    { c \in Calls : /\ Len(c.rawFrames) <= MaxOverlapFrames
                    /\ c.frameSkip = currentSkip
                    /\ Len(c.points) >= 3
                    /\ c.points[1] # Pt(0, 0) \/ Len(c.points) = 3 }

NoCall ==
    [rawFrames |-> << >>, points |-> << >>, originalWidth |-> 0, originalHeight |-> 0,
     targetWidth |-> 0, targetHeight |-> 0, frameSkip |-> 1, quality |-> InitialQuality]

\* no processGifRobust call is followed at pixel level (Spec)
FrameIdle ==
    /\ args = NoCall
    /\ pc = "idle"
    /\ i = 0
    /\ frameIndex = 0
    /\ fullCanvas = << >>
    /\ exportCanvas = << >>
    /\ gifFrames = << >>
    /\ reported = << >>
    /\ calls = << >>
    /\ suspended = << >>

\* processGifRobust has been called with args and awaits the worker script
FrameInit ==
    /\ args \in Calls
    /\ pc = "fetch"
    /\ i = 0
    /\ frameIndex = 0
    /\ fullCanvas = << >>
    /\ exportCanvas = << >>
    /\ gifFrames = << >>
    /\ reported = << >>
    /\ calls = << >>
    /\ suspended = << >>

\* mutant: the full canvas is created at the target size
Setup_FullCanvasAtTarget ==
    /\ pc = "fetch"
    /\ pc' = "loop"
    /\ gifFrames' = << >>
    /\ fullCanvas' = Canvas(args.targetWidth, args.targetHeight)
    /\ exportCanvas' = Canvas(args.targetWidth, args.targetHeight)
    /\ frameIndex' = 0
    /\ i' = 0
    /\ reported' = << >>
    /\ UNCHANGED << args, calls, suspended >>
    /\ UNCHANGED << appVars, editorVars >>

\* mutant: the canvases are module-level singletons, created once and shared
\* by all calls
Setup_SharedCanvases ==
    /\ pc = "fetch"
    /\ pc' = "loop"
    /\ gifFrames' = << >>
    /\ fullCanvas' = IF fullCanvas = << >>
                     THEN Canvas(args.originalWidth, args.originalHeight)
                     ELSE fullCanvas
    /\ exportCanvas' = Canvas(args.targetWidth, args.targetHeight)
    /\ frameIndex' = 0
    /\ i' = 0
    /\ reported' = << >>
    /\ UNCHANGED << args, calls, suspended >>
    /\ UNCHANGED << appVars, editorVars >>

\* App.tsx 540-579: the GIF object, the canvases, frameIndex = 0, i = 0
Setup ==
    /\ pc = "fetch"
    /\ pc' = "loop"
    /\ gifFrames' = << >>
    /\ fullCanvas' = Canvas(args.originalWidth, args.originalHeight)
    /\ exportCanvas' = Canvas(args.targetWidth, args.targetHeight)
    /\ frameIndex' = 0
    /\ i' = 0
    /\ reported' = << >>
    /\ UNCHANGED << args, calls, suspended >>
    /\ UNCHANGED << appVars, editorVars >>

\* mutant: addFrame without copy: the GIF keeps references to the one export
\* canvas, so every frame added so far shows what the canvas shows now
FrameStep_Aliased ==
    /\ pc = "loop"
    /\ i < Len(args.rawFrames)
    /\ reported' = Append(reported, << frameIndex, Len(args.rawFrames) >>)
    /\ frameIndex' = frameIndex + 1
    /\ fullCanvas' = Composite(fullCanvas, args.rawFrames[i + 1])
    /\ IF Kept(i, args.frameSkip)
       THEN /\ exportCanvas' = MaskFrame(exportCanvas, fullCanvas', args)
            /\ gifFrames' = Append([k \in 1 .. Len(gifFrames) |->
                                       [gifFrames[k] EXCEPT !.bitmap = exportCanvas']],
                                   [bitmap |-> exportCanvas',
                                    delay  |-> SumDelays(args.rawFrames, i, 0, args.frameSkip),
                                    index  |-> i])
       ELSE UNCHANGED << exportCanvas, gifFrames >>
    /\ i' = i + 1
    /\ UNCHANGED << args, pc, calls, suspended >>
    /\ UNCHANGED << appVars, editorVars >>

\* mutant: progress is reported after frameIndex was incremented
FrameStep_ReportsAfter ==
    /\ pc = "loop"
    /\ i < Len(args.rawFrames)
    /\ reported' = Append(reported, << frameIndex + 1, Len(args.rawFrames) >>)
    /\ frameIndex' = frameIndex + 1
    /\ fullCanvas' = Composite(fullCanvas, args.rawFrames[i + 1])
    /\ IF Kept(i, args.frameSkip)
       THEN /\ exportCanvas' = MaskFrame(exportCanvas, fullCanvas', args)
            /\ gifFrames' = Append(gifFrames,
                                   [bitmap |-> exportCanvas',
                                    delay  |-> SumDelays(args.rawFrames, i, 0, args.frameSkip),
                                    index  |-> i])
       ELSE UNCHANGED << exportCanvas, gifFrames >>
    /\ i' = i + 1
    /\ UNCHANGED << args, pc, calls, suspended >>
    /\ UNCHANGED << appVars, editorVars >>

\* App.tsx 579-645: one iteration of the frame loop
FrameStep ==
    /\ pc = "loop"
    /\ i < Len(args.rawFrames)
    /\ reported' = Append(reported, << frameIndex, Len(args.rawFrames) >>)
    /\ frameIndex' = frameIndex + 1
    /\ fullCanvas' = Composite(fullCanvas, args.rawFrames[i + 1])
    /\ IF Kept(i, args.frameSkip)
       THEN /\ exportCanvas' = MaskFrame(exportCanvas, fullCanvas', args)
            /\ gifFrames' = Append(gifFrames,
                                   [bitmap |-> exportCanvas',
                                    delay  |-> SumDelays(args.rawFrames, i, 0, args.frameSkip),
                                    index  |-> i])
       ELSE UNCHANGED << exportCanvas, gifFrames >>
    /\ i' = i + 1
    /\ UNCHANGED << args, pc, calls, suspended >>
    /\ UNCHANGED << appVars, editorVars >>

\* App.tsx 647-654: onProgress(1.0) and gif.render()
Render ==
    /\ pc = "loop"
    /\ i >= Len(args.rawFrames)
    /\ reported' = Append(reported, << 1, 1 >>)
    /\ pc' = "render"
    /\ UNCHANGED << args, i, frameIndex, fullCanvas, exportCanvas, gifFrames, calls,
                    suspended >>
    /\ UNCHANGED << appVars, editorVars >>

\* App.tsx 650-652: the encoder's 'finished' event resolves the promise
Finished ==
    /\ pc = "render"
    /\ pc' = "done"
    /\ calls' = Append(calls, [args |-> args,
                               width |-> args.targetWidth, height |-> args.targetHeight,
                               quality |-> args.quality,
                               gifFrames |-> gifFrames])
    /\ UNCHANGED << args, i, frameIndex, fullCanvas, exportCanvas, gifFrames, reported,
                    suspended >>
    /\ UNCHANGED << appVars, editorVars >>

\* App.tsx 121-135: the caller invokes processGifRobust again with the same
\* frames, polygon and source dimensions and some target size (the next
\* attempt of the loop, or the first attempt of another export).  The new
\* call has no GIF object yet; the canvases of the call that returned are
\* garbage until Setup creates the new ones.
CallAgain ==
    /\ pc = "done"
    /\ Len(calls) + Len(suspended) < MaxCalls
    /\ \E t \in Retargets :
          args' = [args EXCEPT !.targetWidth = t[1], !.targetHeight = t[2]]
    /\ pc' = "fetch"
    /\ gifFrames' = << >>
    /\ reported' = << >>
    /\ UNCHANGED << i, frameIndex, fullCanvas, exportCanvas, calls, suspended >>
    /\ UNCHANGED << appVars, editorVars >>

\* what a call keeps while it is suspended at an await
Suspension == [args |-> args, pc |-> pc, gifFrames |-> gifFrames, reported |-> reported]

\* App.tsx 489-497, 125: the export button is pressed again while the call
\* awaits the worker script (line 540) or the encoder (lines 649-654):
\* another handleExport invocation calls processGifRobust concurrently.
CallWhileAwaiting ==
    /\ pc \in {"fetch", "render"}
    /\ Len(calls) + Len(suspended) + 1 < MaxCalls
    /\ suspended' = Append(suspended, Suspension)
    /\ \E t \in Retargets :
          args' = [args EXCEPT !.targetWidth = t[1], !.targetHeight = t[2]]
    /\ pc' = "fetch"
    /\ gifFrames' = << >>
    /\ reported' = << >>
    /\ UNCHANGED << i, frameIndex, fullCanvas, exportCanvas, calls >>
    /\ UNCHANGED << appVars, editorVars >>

\* App.tsx 540, 649-654: the event loop turns to another suspended call k.
\* This happens only while the call followed so far is itself at an await
\* or has returned: the code between two awaits runs to completion.
Dispatch(k) ==
    /\ pc \in {"fetch", "render", "done"}
    /\ k \in 1 .. Len(suspended)
    /\ args' = suspended[k].args
    /\ pc' = suspended[k].pc
    /\ gifFrames' = suspended[k].gifFrames
    /\ reported' = suspended[k].reported
    /\ suspended' = IF pc = "done"
                    THEN SubSeq(suspended, 1, k - 1) \o SubSeq(suspended, k + 1, Len(suspended))
                    ELSE [suspended EXCEPT ![k] = Suspension]
    /\ UNCHANGED << i, frameIndex, fullCanvas, exportCanvas, calls >>
    /\ UNCHANGED << appVars, editorVars >>

RECURSIVE Reconstruct(_, _, _, _, _)
\* App.tsx 579-645 as a function: the frames one call adds to its GIF when
\* nothing else runs, from raw frame n on, given its canvases
Reconstruct(a, n, full, export, added) ==
    IF n >= Len(a.rawFrames) THEN added
    ELSE LET full2 == Composite(full, a.rawFrames[n + 1])
             export2 == IF Kept(n, a.frameSkip) THEN MaskFrame(export, full2, a) ELSE export
         IN Reconstruct(a, n + 1, full2, export2,
                        IF Kept(n, a.frameSkip)
                        THEN Append(added, [bitmap |-> export2,
                                            delay  |-> SumDelays(a.rawFrames, n, 0, a.frameSkip),
                                            index  |-> n])
                        ELSE added)

RECURSIVE FullCanvasAfter(_, _, _, _)
\* App.tsx 552-602 as a function of the raw frames and the source size alone:
\* the full canvas after the first n raw frames
FullCanvasAfter(rawFrames, n, originalWidth, originalHeight) ==
    IF n = 0 THEN Canvas(originalWidth, originalHeight)
    ELSE Composite(FullCanvasAfter(rawFrames, n - 1, originalWidth, originalHeight),
                   rawFrames[n])

\* App.tsx 529-654: the frames a call with arguments a hands its encoder when
\* it runs alone
RunAlone(a) ==
    Reconstruct(a, 0, Canvas(a.originalWidth, a.originalHeight),
                Canvas(a.targetWidth, a.targetHeight), << >>)

\* ======================================================================
\* the polygon editor (unnamed/part_000)
\* ======================================================================
\* unnamed/part_000 55: no point is being dragged; nothing rendered yet
EditorIdle ==
    /\ activePointId = Null
    /\ rendered = [points |-> << >>, activePointId |-> Null]
    /\ uuids = 0

\* App.tsx 70-80 and 306-311: a file has been decoded and the editor is
\* mounted on its first frame, with an empty point list
EditorInit ==
    \E file \in GifFiles :
        /\ ~DecodeFails(file)
        /\ Len(loadGifFrames(file)) > 0
        /\ gifFile = file
        /\ originalUrl = file
        /\ frames = loadGifFrames(file)
        /\ dims = << [width  |-> frames[1].dims.width,
                      height |-> frames[1].dims.height] >>
        /\ status = DRAGGING
        /\ processedUrl = << >>
        /\ points = << >>
        /\ progress = << 0, 1 >>
        /\ error = Null
        /\ finalSizeMB = 0
        /\ limitFileSize = FALSE
        /\ maxFileSize = DefaultMaxFileSize
        /\ uploads = {}
        /\ nEvents = 0
        /\ runs = << >>

\* the positions getMousePos returns (unnamed/part_000 77-84), in tenths of a
\* pixel: left of the image, below it, and inside it
MousePositions == { << -10, 100 >>, << 200, 5000 >>, << 240, 160 >> }

\* the positions a click on an edge can have: the edges are drawn inside the
\* image (unnamed/part_000 194-201, 262-278)
EdgePositions ==
    { pos \in MousePositions : /\ 0 <= pos[1] /\ pos[1] <= 10 * dims[1].width
                               /\ 0 <= pos[2] /\ pos[2] <= 10 * dims[1].height }

\* one more mouse event reaches the editor
EditorEvent == nEvents < MaxEditorEvents /\ nEvents' = nEvents + 1

\* the ids of the vertices on screen
RenderedIds == { rendered.points[k].id : k \in 1 .. Len(rendered.points) }

\* crypto.randomUUID (unnamed/part_000 176): a fresh id
randomUUID(n) == "uuid-" \o ToString(n)

\* mutant: the lower bound is not applied
Clamp_NoLowerBound(v, limit) == Min(limit, v)

\* Math.max(0, Math.min(limit, v)) (unnamed/part_000 98-99)
Clamp(v, limit) == Max(0, Min(limit, v))

\* unnamed/part_000 101-103: prev.map(...)
MovePoint(prev, id, x, y) ==
    [k \in 1 .. Len(prev) |->
        IF prev[k].id = id THEN [prev[k] EXCEPT !.x = x, !.y = y] ELSE prev[k]]

\* unnamed/part_000 178-180: [...prev] with newPoint spliced in at index at
\* (Array.prototype.splice takes a start beyond the end as the end)
Splice(prev, at, newPoint) ==
    LET start == Min(at, Len(prev))
    IN SubSeq(prev, 1, start) \o << newPoint >> \o SubSeq(prev, start + 1, Len(prev))

\* unnamed/part_000 187: prev.filter(p => p.id !== id)
WithoutPoint(prev, id) == SelectSeq(prev, LAMBDA p : p.id # id)

\* React renders the editor with the current points and activePointId; the
\* handlers on screen and the window listeners (unnamed/part_000 156-171)
\* are those of this render from now on.  When the render happens is React's
\* scheduling, not the editor's: until it does, events are handled by the
\* handlers of the render before.
EditorRender ==
    /\ EditorMounted /\ ~EffectsPending
    /\ rendered # [points |-> points, activePointId |-> activePointId]
    /\ rendered' = [points |-> points, activePointId |-> activePointId]
    /\ UNCHANGED << appVars, frameVars, activePointId, uuids >>

\* unnamed/part_000 88-91: mouse down on the vertex with this id
handlePointMouseDown(id) ==
    /\ EditorMounted
    /\ id \in RenderedIds
    /\ EditorEvent
    /\ activePointId' = id
    /\ UNCHANGED << gifFile, frames, originalUrl, processedUrl, points, dims, status,
                    progress, error, finalSizeMB, limitFileSize, maxFileSize,
                    uploads, runs >>
    /\ UNCHANGED << frameVars, rendered, uuids >>

\* unnamed/part_000 93-104: the mouse moves to pos.  The listener is attached
\* while the rendered activePointId is set (156-160) and returns at once
\* without one (94).
handlePointMouseMove(pos) ==
    /\ EditorMounted
    /\ EditorEvent
    /\ IF rendered.activePointId = Null
       THEN UNCHANGED points
       ELSE points' = MovePoint(points, rendered.activePointId,
                                Clamp(pos[1], 10 * dims[1].width),
                                Clamp(pos[2], 10 * dims[1].height))
    /\ UNCHANGED << gifFile, frames, originalUrl, processedUrl, dims, status,
                    progress, error, finalSizeMB, limitFileSize, maxFileSize,
                    uploads, runs >>
    /\ UNCHANGED << frameVars, editorVars >>

\* unnamed/part_000 106-108: mouse up while the listener is attached
handlePointMouseUp ==
    /\ EditorMounted
    /\ rendered.activePointId # Null
    /\ EditorEvent
    /\ activePointId' = Null
    /\ UNCHANGED << gifFile, frames, originalUrl, processedUrl, points, dims, status,
                    progress, error, finalSizeMB, limitFileSize, maxFileSize,
                    uploads, runs >>
    /\ UNCHANGED << frameVars, rendered, uuids >>

\* unnamed/part_000 174-182: click at pos on the edge that leaves the
\* rendered vertex number index (0-based)
handleLineClick(index, pos) ==
    /\ EditorMounted
    /\ index \in 0 .. Len(rendered.points) - 1
    /\ EditorEvent
    /\ uuids' = uuids + 1
    /\ points' = Splice(points, index + 1,
                        [id |-> randomUUID(uuids'), x |-> pos[1], y |-> pos[2]])
    /\ UNCHANGED << gifFile, frames, originalUrl, processedUrl, dims, status,
                    progress, error, finalSizeMB, limitFileSize, maxFileSize,
                    uploads, runs >>
    /\ UNCHANGED << frameVars, activePointId, rendered >>

\* unnamed/part_000 184-188: double click on the vertex with this id.  The
\* guard reads the points prop of the render, the update works on the
\* current list.
handleDeletePoint(id) ==
    /\ EditorMounted
    /\ id \in RenderedIds
    /\ EditorEvent
    /\ IF Len(rendered.points) <= 3
       THEN UNCHANGED points
       ELSE points' = WithoutPoint(points, id)
    /\ UNCHANGED << gifFile, frames, originalUrl, processedUrl, dims, status,
                    progress, error, finalSizeMB, limitFileSize, maxFileSize,
                    uploads, runs >>
    /\ UNCHANGED << frameVars, editorVars >>

\* ======================================================================
\* specifications
\* ======================================================================
Init == AppInit /\ FrameIdle /\ EditorIdle

Next ==
    \/ \E file \in Files : handleFileUpload(file)
    \/ \E file \in Files : UploadParsed(file)
    \/ \E file \in Files : UploadFailed(file)
    \/ EditorInitPoints
    \/ \E checked \in BOOLEAN : setLimitFileSize(checked)
    \/ \E value \in Budgets : setMaxFileSize(value)
    \/ handleExport
    \/ \E r \in 1 .. Len(runs) : processGifRobust(r)
    \/ \E r \in 1 .. Len(runs) : ExportFailed(r)
    \/ \E r \in 1 .. Len(runs) : EncodeFinished(r)
    \/ \E r \in 1 .. Len(runs) : EncodeFailed(r)
    \/ reset
    \/ KeepEditing

Spec == Init /\ [][Next]_vars

FrameSpecInit == AppInit /\ FrameInit /\ EditorIdle

FrameNext == Setup \/ FrameStep \/ Render \/ Finished

FrameSpec == FrameSpecInit /\ [][FrameNext]_vars

\* several processGifRobust calls: a call may be invoked after another has
\* returned, or while another awaits the worker script or the encoder
OverlapInit == AppInit /\ FrameInit /\ EditorIdle /\ args \in OverlapCalls

OverlapNext ==
    \/ Setup
    \/ FrameStep
    \/ Render
    \/ Finished
    \/ CallAgain
    \/ CallWhileAwaiting
    \/ \E k \in 1 .. Len(suspended) : Dispatch(k)

OverlapSpec == OverlapInit /\ [][OverlapNext]_vars

\* the editor alone, mounted on a decoded file: its effects, renders and
\* mouse events
EditorSpecInit == EditorInit /\ FrameIdle /\ EditorIdle

EditorNext ==
    \/ EditorInitPoints
    \/ EditorRender
    \/ \E id \in RenderedIds : handlePointMouseDown(id)
    \/ \E pos \in MousePositions : handlePointMouseMove(pos)
    \/ handlePointMouseUp
    \/ \E index \in 0 .. Len(rendered.points) - 1, pos \in EdgePositions :
          handleLineClick(index, pos)
    \/ \E id \in RenderedIds : handleDeletePoint(id)

EditorSpec == EditorSpecInit /\ [][EditorNext]_vars

\* a pending promise of some export invocation settles: the worker script
\* request (either way) or an encode
Settle ==
    \E r \in 1 .. Len(runs) : processGifRobust(r) \/ ExportFailed(r) \/ EncodeFinished(r)

\* fairness: pending promises keep settling.  Every invocation needs only
\* finitely many of them, so each pending one is settled eventually.
FairSpec == Spec /\ WF_vars(Settle)

\* ======================================================================
\* properties
\* ======================================================================
GaveUpWarning == "Could not compress to target size. Returning best effort."

\* the encode of run r completes and run r evaluates the blob in this step
Evaluated(r) == runs[r].pc = "render" /\ runs'[r].pc \notin {"render", "hung"}

\* the blob the encoder returned for the job of run r in this step
BlobOf(r) ==
    [run |-> r, attempt |-> runs[r].attempt, size |-> finalSizeMB',
     width |-> runs[r].gif[1].width, height |-> runs[r].gif[1].height,
     quality |-> runs[r].gif[1].quality, frames |-> runs[r].gif[1].frames]

OverBudget(r) == runs[r].limitFileSize /\ finalSizeMB' > runs[r].maxFileSize

\* C1: in every attempt of every export the encoder is handed exactly one
\* frame per raw frame, in input order, the k-th with the delay of the k-th
\* raw frame, whatever the attempt's target resolution and quality.
C1_OneFramePerRawFrame ==
    \A r \in 1 .. Len(runs) :
        runs[r].pc = "render" =>
            LET job == runs[r].gif[1]
                raw == runs[r].frames
            IN /\ Len(job.frames) = Len(raw)
               /\ \A k \in 1 .. Len(raw) :
                     /\ job.frames[k].index = k - 1
                     /\ job.frames[k].delay = raw[k].delay

\* a later attempt (shrunk resolution, lower quality) of a 3-frame source is
\* being encoded
C1_Witness ==
    \E r \in 1 .. Len(runs) :
        /\ runs[r].pc = "render"
        /\ runs[r].attempt >= 2
        /\ Len(runs[r].frames) = 3
        /\ runs[r].gif[1].width < runs[r].dims.width
        /\ runs[r].gif[1].quality > InitialQuality

\* C3: the export stops at the first acceptable attempt.  Without a budget
\* the first attempt, at source resolution, is accepted; with a budget an
\* attempt is accepted exactly when its blob is within the budget; the
\* accepted blob is the one published, the status becomes COMPLETED and the
\* invocation has returned for good.
C3_StopsAtFirstAcceptable ==
    [][\A r \in 1 .. Len(runs) :
          /\ Evaluated(r) =>
                /\ ~runs[r].limitFileSize =>
                      /\ runs[r].attempt = 1
                      /\ runs[r].gif[1].width = runs[r].dims.width
                      /\ runs[r].gif[1].height = runs[r].dims.height
                /\ ~OverBudget(r) =>
                      /\ runs'[r].pc = "done"
                      /\ runs'[r].outcome = "ACCEPTED"
                      /\ processedUrl' = << BlobOf(r) >>
                      /\ status' = COMPLETED
                /\ OverBudget(r) => runs'[r].outcome # "ACCEPTED"
          /\ runs[r].pc = "done" => runs'[r] = runs[r]]_vars

\* the second attempt of an export with a budget was accepted and published
C3_Witness ==
    /\ status = COMPLETED
    /\ processedUrl # << >>
    /\ processedUrl[1].attempt = 2
    /\ processedUrl[1].size > 1
    /\ \E r \in 1 .. Len(runs) : runs[r].outcome = "ACCEPTED"

\* C4: an export invocation makes at most 5 encode attempts and, when the
\* worker request settles and every encode completes, it returns with one
\* of the outcomes ACCEPTED, BEST_EFFORT, GAVE_UP or ERROR; the only other
\* way it ends is an encode that never completes.
C4_BoundedAndTerminates ==
    /\ [](\A r \in 1 .. Len(runs) : runs[r].attempt <= 5)
    /\ \A r \in 1 .. MaxEvents :
          (Len(runs) >= r) ~>
              (/\ Len(runs) >= r
               /\ \/ /\ runs[r].pc = "done"
                     /\ runs[r].outcome \in {"ACCEPTED", "BEST_EFFORT", "GAVE_UP", "ERROR"}
                  \/ runs[r].pc = "hung")

\* an invocation has returned after its fifth attempt was over budget
C4_Witness ==
    \E r \in 1 .. Len(runs) : runs[r].pc = "done" /\ runs[r].outcome = "GAVE_UP"

\* C5 (as claimed): when the fifth attempt is over budget the invocation
\* publishes that attempt's blob together with the warning.
C5_GaveUpPublishesLastBlob ==
    [][\A r \in 1 .. Len(runs) :
          (Evaluated(r) /\ runs'[r].outcome = "GAVE_UP") =>
              /\ processedUrl' = << BlobOf(r) >>
              /\ error' = GaveUpWarning]_vars

\* C6 (as claimed): when an over-budget attempt's rescaled width or height
\* falls below 32, the blob just produced is accepted as BEST_EFFORT and the
\* invocation returns.
C6_BestEffortBelowFloor ==
    [][\A r \in 1 .. Len(runs) :
          (/\ Evaluated(r)
           /\ OverBudget(r)
           /\ \/ ScaleRaw(runs[r].currentW, runs[r].maxFileSize, finalSizeMB') < 32
              \/ ScaleRaw(runs[r].currentH, runs[r].maxFileSize, finalSizeMB') < 32) =>
              /\ runs'[r].pc = "done"
              /\ runs'[r].outcome = "BEST_EFFORT"
              /\ processedUrl' = << BlobOf(r) >>]_vars

\* run r, fed by the linear encoder stub with a budget below the stub's size
\* for the source, returns in this step
LinearRunReturns(r) ==
    /\ Evaluated(r)
    /\ runs'[r].pc = "done"
    /\ runs[r].limitFileSize
    /\ runs[r].linear
    /\ finalSizeMB' = LinearSize(runs[r].gif[1].width, runs[r].gif[1].height)
    /\ runs[r].maxFileSize < LinearSize(runs[r].dims.width, runs[r].dims.height)

\* C7 (as claimed): with the linear stub and a budget B below the size of
\* the source, the loop ends within 5 attempts with a final attempt of
\* width * height <= B / k, or at the 32 x 32 floor.
C7_ConvergesOrFloor32x32 ==
    [][\A r \in 1 .. Len(runs) :
          LinearRunReturns(r) =>
              /\ runs[r].attempt <= 5
              /\ \/ finalSizeMB' <= runs[r].maxFileSize
                 \/ runs[r].gif[1].width = 32 /\ runs[r].gif[1].height = 32]_vars

\* C7 (amended): ... the loop ends within 5 attempts with a final attempt
\* of width * height <= B / k, or with a final attempt that has at least one
\* dimension at the floor of 32; when the first rescaling clamps neither
\* dimension, the second attempt is within 0.9 * B.
C7_ConvergesOrOneDimAtFloor ==
    [][\A r \in 1 .. Len(runs) :
          /\ LinearRunReturns(r) =>
                /\ runs[r].attempt <= 5
                /\ \/ finalSizeMB' <= runs[r].maxFileSize
                   \/ runs[r].gif[1].width = 32
                   \/ runs[r].gif[1].height = 32
          /\ (/\ Evaluated(r) /\ OverBudget(r)
              /\ runs[r].attempt = 1
              /\ finalSizeMB' = LinearSize(runs[r].gif[1].width, runs[r].gif[1].height)
              /\ ScaleRaw(runs[r].currentW, runs[r].maxFileSize, finalSizeMB') >= 32
              /\ ScaleRaw(runs[r].currentH, runs[r].maxFileSize, finalSizeMB') >= 32) =>
                 10 * LinearSize(runs'[r].currentW, runs'[r].currentH) <= 9 * runs[r].maxFileSize]_vars

\* a linear-stub export gave up over budget with a final attempt larger than
\* 32 x 32 (its size is published as the final size)
C7_Witness ==
    /\ error = GaveUpWarning
    /\ finalSizeMB > 32 * 32
    /\ \E r \in 1 .. Len(runs) : runs[r].outcome = "GAVE_UP"

\* C8 (as claimed): when no attempt meets the budget the loop runs exactly
\* 5 attempts, each after the first smaller than the one before, and the
\* last blob is returned with the give-up warning at dimensions >= 32 x 32.
C8_FiveShrinkingAttemptsThenResult ==
    [][\A r \in 1 .. Len(runs) :
          (Evaluated(r) /\ runs'[r].outcome = "GAVE_UP") =>
              /\ runs[r].attempt = 5
              /\ runs[r].shrank
              /\ runs[r].gif[1].width >= 32 /\ runs[r].gif[1].height >= 32
              /\ processedUrl' = << BlobOf(r) >>
              /\ error' = GaveUpWarning]_vars

\* C9 (as claimed): in every attempt the target width and height handed to
\* the encoder are both at least 32.
C9_TargetAtLeast32 ==
    \A r \in 1 .. Len(runs) :
        runs[r].pc = "render" =>
            runs[r].gif[1].width >= 32 /\ runs[r].gif[1].height >= 32

\* C9 (amended): the first attempt uses the source dimensions unchanged;
\* in every later attempt the target width and height are both at least 32.
C9_TargetAtLeast32AfterFirst ==
    \A r \in 1 .. Len(runs) :
        runs[r].pc = "render" =>
            IF runs[r].attempt = 1
            THEN /\ runs[r].gif[1].width = runs[r].dims.width
                 /\ runs[r].gif[1].height = runs[r].dims.height
            ELSE /\ runs[r].gif[1].width >= 32
                 /\ runs[r].gif[1].height >= 32

\* a later attempt runs with a dimension clamped to 32 where the unclamped
\* rescaling of a 16 pixel high source was below it
C9_Witness ==
    \E r \in 1 .. Len(runs) :
        /\ runs[r].pc = "render"
        /\ runs[r].attempt >= 2
        /\ runs[r].dims.height < 32
        /\ runs[r].gif[1].height = 32

TargetGrid == (0 .. args.targetWidth - 1) \X (0 .. args.targetHeight - 1)

\* C2: every bitmap added to the GIF has the target dimensions and shows the
\* chroma key at every pixel (centre) outside the scaled polygon, whatever
\* the frames before it left on the export canvas; a pixel inside the
\* polygon shows the full canvas at the scaled location (the chroma key
\* where the full canvas is transparent).
C2_MaskedBitmap ==
    /\ \A k \in 1 .. Len(gifFrames) :
          /\ DOMAIN gifFrames[k].bitmap = TargetGrid
          /\ \A p \in TargetGrid :
                ~InsideClip(p, args) => gifFrames[k].bitmap[p] = 65280
    /\ (pc = "loop" /\ i >= 1 /\ gifFrames # << >> /\ Last(gifFrames).index = i - 1) =>
          \A p \in TargetGrid :
              InsideClip(p, args) =>
                  Last(gifFrames).bitmap[p] =
                      IF fullCanvas[SourcePixel(p, args)] = Transparent
                      THEN 65280
                      ELSE fullCanvas[SourcePixel(p, args)]

\* a second or later frame was masked at a resolution other than the
\* source's: it shows canvas content inside the polygon and the chroma key
\* at a pixel outside it where the full canvas is not transparent
C2_Witness ==
    /\ Len(gifFrames) >= 2
    /\ args.targetWidth # args.originalWidth
    /\ pc = "loop"
    /\ Last(gifFrames).index = i - 1
    /\ \E p, q \in TargetGrid :
          /\ InsideClip(p, args)
          /\ Last(gifFrames).bitmap[p] \in {Red, Blue}
          /\ ~InsideClip(q, args)
          /\ fullCanvas[SourcePixel(q, args)] # Transparent
          /\ Last(gifFrames).bitmap[q] = 65280

\* the encoder fails on run r in this step: it threw inside processGifRobust
\* or it failed while rendering
EncoderFails(r) ==
    /\ runs[r].pc \in {"fetch", "render"}
    /\ runs'[r].pc = "hung" \/ runs'[r].outcome = "ERROR"

\* C11 (as claimed): when the encoder fails in an attempt the export is
\* aborted: the invocation returns with an error shown, the status leaves
\* PROCESSING, no blob is published and no further attempt starts.
C11_EncoderFailureAborts ==
    [][\A r \in 1 .. Len(runs) :
          EncoderFails(r) =>
              /\ runs'[r].pc = "done"
              /\ runs'[r].outcome = "ERROR"
              /\ error' = "Failed to generate GIF."
              /\ status' # PROCESSING
              /\ processedUrl' = processedUrl]_vars

\* the decode of an uploaded file fails in this step
DecodeFailed ==
    \E file \in uploads : DecodeFails(file) /\ uploads' = uploads \ {file}

\* C12 (as claimed): after a failed decode the status is IDLE, an error is
\* set, the frames and dimensions are not touched by the failed upload,
\* no processed result exists and the export button is not offered.
C12_FailedDecodeLeavesNothing ==
    [][DecodeFailed =>
          /\ status' = IDLE
          /\ error' = "Failed to parse GIF. Try a different file."
          /\ frames' = frames /\ dims' = dims
          /\ processedUrl' = << >>
          /\ ~SidebarVisible']_vars

\* C13 (as claimed): a call with a polygon of fewer than 3 points is
\* rejected: no frame is added to the GIF and no render is started.
C13_DegeneratePolygonRejected ==
    Len(args.points) < 3 =>
        /\ gifFrames = << >>
        /\ pc \notin {"render", "done"}

\* C14: two calls with identical raw frames, polygon, source and target
\* dimensions and quality hand the encoder identical GIF options and
\* identical frame sequences (bitmaps, delays), whatever call ran before
\* each of them.
C14_Deterministic ==
    \A a, b \in 1 .. Len(calls) :
        calls[a].args = calls[b].args =>
            /\ calls[a].gifFrames = calls[b].gifFrames
            /\ calls[a].width = calls[b].width /\ calls[a].height = calls[b].height
            /\ calls[a].quality = calls[b].quality

\* the same call was made twice; it emitted several frames that differ, and
\* it left a full canvas that is not blank for the second to find
C14_Witness ==
    /\ Len(calls) = 2
    /\ calls[1].args = calls[2].args
    /\ Len(calls[1].gifFrames) >= 2
    /\ calls[1].gifFrames[1].bitmap # calls[1].gifFrames[2].bitmap
    /\ \E p \in DOMAIN fullCanvas : fullCanvas[p] # Transparent

\* C15: within one invocation the attempt counter advances only when the
\* encode of the current attempt has completed and its size was evaluated
\* as over budget, and then by one; an encode starts only for an invocation
\* that has none in flight, so each invocation has at most one job with the
\* encoder at any time.
C15_AttemptsSequential ==
    [][\A r \in 1 .. Len(runs) :
          /\ runs'[r].attempt > runs[r].attempt =>
                /\ runs[r].pc = "render"
                /\ Len(runs[r].gif) = 1
                /\ OverBudget(r)
                /\ runs'[r].attempt = runs[r].attempt + 1
                /\ runs'[r].pc = "fetch"
                /\ runs'[r].gif = << >>
          /\ (runs'[r].pc = "render" /\ runs[r].pc # "render") =>
                /\ runs[r].pc = "fetch"
                /\ runs[r].gif = << >>
          /\ Len(runs'[r].gif) <= 1
          /\ Len(runs'[r].gif) = 1 <=> runs'[r].pc = "render"]_vars

\* the third attempt of an invocation is being encoded while another
\* invocation is in flight too
C15_Witness ==
    \E r, q \in 1 .. Len(runs) :
        /\ r # q
        /\ runs[r].pc = "render" /\ runs[r].attempt = 3
        /\ runs[q].pc \in {"fetch", "render"}

\* C16 (as claimed): an export that was abandoned by reset (the status is
\* IDLE while it is in flight) stops at its next evaluation: it starts no
\* further attempt and publishes nothing.
C16_AbandonedExportStops ==
    [][\A r \in 1 .. Len(runs) :
          (status = IDLE /\ Evaluated(r)) =>
              /\ runs'[r].pc = "done"
              /\ processedUrl' = processedUrl
              /\ status' = IDLE]_vars

\* C17: calls that overlap (a call invoked while another awaits the worker
\* script or the encoder) do not disturb each other: a call enters its
\* frame loop on canvases of its own, blank and of its own sizes, and when
\* it starts the encoder, and again when the encoder finishes, the frames
\* of its GIF are exactly the frames it produces when it runs alone.
C17_ConcurrentRunsIndependent ==
    [][/\ (pc = "fetch" /\ pc' = "loop") =>
              /\ fullCanvas' = Canvas(args.originalWidth, args.originalHeight)
              /\ exportCanvas' = Canvas(args.targetWidth, args.targetHeight)
       /\ (pc = "loop" /\ pc' = "render") => gifFrames' = RunAlone(args)
       /\ (pc = "render" /\ pc' = "done") =>
              Last(calls').gifFrames = RunAlone(Last(calls').args)]_vars

\* two calls overlap: the second has run its frame loop at another target
\* size while the first is still with the encoder; both handed over frames
\* that show canvas content
C17_Witness ==
    /\ Len(suspended) = 1
    /\ suspended[1].pc = "render"
    /\ pc = "render"
    /\ suspended[1].args.targetWidth # args.targetWidth
    /\ Len(gifFrames) >= 2
    /\ \E p \in DOMAIN gifFrames[2].bitmap : gifFrames[2].bitmap[p] \in {Red, Blue}
    /\ \E p \in DOMAIN suspended[1].gifFrames[1].bitmap :
          suspended[1].gifFrames[1].bitmap[p] \in {Red, Blue}

\* the values reported before raw frames 0 .. k-1 of n were consumed
ProgressUpTo(k, n) == [j \in 1 .. k |-> << j - 1, n >>]

\* C18: in a call over n raw frames the progress reported before each raw
\* frame is consumed is 0/n, 1/n, ..., (n-1)/n (followed by 1 after the
\* loop); the reported values increase strictly and lie in [0, 1]; and the
\* frames emitted are those of the frame loop without any reporting.
C18_ProgressAdvisory ==
    LET n == Len(args.rawFrames)
    IN /\ pc = "loop" => reported = ProgressUpTo(i, n)
       /\ pc \in {"render", "done"} =>
             /\ reported = Append(ProgressUpTo(n, n), << 1, 1 >>)
             /\ gifFrames = RunAlone(args)
       /\ \A k \in 1 .. Len(reported) :
             /\ reported[k][2] > 0
             /\ 0 <= reported[k][1] /\ reported[k][1] <= reported[k][2]
             /\ k < Len(reported) =>
                   reported[k][1] * reported[k + 1][2] < reported[k + 1][1] * reported[k][2]

\* a call over 3 raw frames with frameSkip 2 has left its loop: progress was
\* reported 4 times while 2 frames were emitted
C18_Witness ==
    /\ pc = "render"
    /\ Len(args.rawFrames) = 3
    /\ args.frameSkip = 2
    /\ Len(reported) = 4
    /\ Len(gifFrames) = 2

\* next = max(32, floor(cur * f)) with f = sqrt(0.9 * budget / actual), in
\* integers: floor(cur * f) is the largest n with
\* 10 * actual * n * n <= 9 * budget * cur * cur
IsScaledAndClamped(next, cur, budget, actual) ==
    /\ next >= 32
    /\ next > 32 => /\ 10 * actual * next * next <= 9 * budget * cur * cur
                    /\ 10 * actual * (next + 1) * (next + 1) > 9 * budget * cur * cur
    /\ next = 32 => 10 * actual * 33 * 33 > 9 * budget * cur * cur

\* C19: when an over-budget attempt with dimensions (w, h) and size actual
\* is followed by another attempt, that attempt's dimensions are
\* max(32, floor(w * f)) and max(32, floor(h * f)) with the one factor
\* f = sqrt(0.9 * budget / actual).
C19_NextDimensions ==
    [][\A r \in 1 .. Len(runs) :
          (Evaluated(r) /\ runs'[r].pc = "fetch") =>
              /\ OverBudget(r)
              /\ IsScaledAndClamped(runs'[r].currentW, runs[r].currentW,
                                    runs[r].maxFileSize, finalSizeMB')
              /\ IsScaledAndClamped(runs'[r].currentH, runs[r].currentH,
                                    runs[r].maxFileSize, finalSizeMB')]_vars

\* a third attempt whose width was scaled down twice and whose height was
\* clamped to 32
C19_Witness ==
    \E r \in 1 .. Len(runs) :
        /\ runs[r].attempt = 3
        /\ runs[r].pc = "fetch"
        /\ runs[r].currentW > 32 /\ runs[r].currentW < runs[r].dims.width
        /\ runs[r].currentH = 32

\* the quality the claim assigns to each attempt number
ScheduledQuality(attempt) ==
    CASE attempt = 1 -> 10
      [] attempt = 2 -> 15
      [] attempt = 3 -> 20
      [] OTHER       -> 30

\* C20: the quality of an attempt is determined by its number alone: 10 for
\* the first attempt, 15, 20 and 30 for the attempts that follow the
\* over-budget attempts 1, 2 and >= 3, whatever sizes were measured; it is
\* the quality handed to the encoder, and it never decreases from one attempt
\* to the next.
C20_QualitySchedule ==
    [][\A r \in 1 .. Len(runs') :
          runs'[r].pc \in {"fetch", "render"} =>
              /\ runs'[r].currentQuality = ScheduledQuality(runs'[r].attempt)
              /\ runs'[r].pc = "render" =>
                    runs'[r].gif[1].quality = ScheduledQuality(runs'[r].attempt)
              /\ r <= Len(runs) =>
                    /\ runs'[r].currentQuality >= runs[r].currentQuality
                    /\ runs'[r].attempt > runs[r].attempt =>
                          runs'[r].currentQuality > runs[r].currentQuality
                          \/ runs[r].attempt >= 4]_vars

\* the fifth attempt is with the encoder at quality 30, as the fourth was
C20_Witness ==
    \E r \in 1 .. Len(runs) :
        /\ runs[r].pc = "render"
        /\ runs[r].attempt = 5
        /\ runs[r].gif[1].quality = 30

\* C21: a frame added to the GIF is a snapshot of the export canvas at that
\* moment, and no later step of the call (compositing further raw frames,
\* refilling and redrawing the export canvas, rendering) changes a frame
\* that was added before.
C21_EmittedFramesAreSnapshots ==
    [][(pc = "loop" \/ pc = "render") =>
          /\ Len(gifFrames') >= Len(gifFrames)
          /\ \A k \in 1 .. Len(gifFrames) : gifFrames'[k] = gifFrames[k]
          /\ Len(gifFrames') > Len(gifFrames) =>
                /\ Len(gifFrames') = Len(gifFrames) + 1
                /\ Last(gifFrames').bitmap = (exportCanvas')]_vars

\* after two frames were added a third raw frame was processed: the export
\* canvas and the full canvas no longer show what the first frame shows
C21_Witness ==
    /\ pc = "loop"
    /\ i = 3
    /\ Len(gifFrames) = 3
    /\ gifFrames[1].bitmap # exportCanvas
    /\ gifFrames[1].bitmap # gifFrames[2].bitmap
    /\ gifFrames[2].bitmap # gifFrames[3].bitmap

\* the pixel of the frame's patch that lands on canvas pixel p
PatchPixel(frame, p) == frame.patch[<< p[1] - frame.dims.left, p[2] - frame.dims.top >>]

\* raw frame i (0-based) is composited onto the full canvas in this step
Composited == pc = "loop" /\ i' = i + 1

\* C22 (as claimed): after a raw frame was composited every pixel of its
\* placement rectangle equals the patch pixel, transparent ones included,
\* and every pixel outside the rectangle is unchanged.
C22_PatchOverwritesRectangle ==
    [][Composited =>
          \A p \in DOMAIN fullCanvas :
              IF InRect(p, args.rawFrames[i + 1].dims)
              THEN fullCanvas'[p] = PatchPixel(args.rawFrames[i + 1], p)
              ELSE fullCanvas'[p] = fullCanvas[p]]_vars

\* C22 (amended): after a raw frame was composited every pixel of its
\* placement rectangle where the patch is opaque equals the patch pixel;
\* where the patch is transparent the pixel keeps what the canvas showed
\* (nothing, when the frame's disposal type 2 cleared the rectangle first);
\* every pixel outside the rectangle is unchanged.
C22_OpaquePatchPixelsOverwrite ==
    [][Composited =>
          LET frame == args.rawFrames[i + 1]
          IN \A p \in DOMAIN fullCanvas :
                 IF ~InRect(p, frame.dims) THEN fullCanvas'[p] = fullCanvas[p]
                 ELSE IF PatchPixel(frame, p) # Transparent
                      THEN fullCanvas'[p] = PatchPixel(frame, p)
                      ELSE IF frame.disposalType = 2
                           THEN fullCanvas'[p] = Transparent
                           ELSE fullCanvas'[p] = fullCanvas[p]]_vars

\* a patch with a transparent pixel and an offset was composited without a
\* disposal clear: the canvas shows the older frame through the hole, the
\* patch elsewhere in the rectangle and the older frame outside it
C22_Witness ==
    /\ pc = "loop" /\ i >= 2
    /\ args.rawFrames[i].disposalType # 2
    /\ \E p, q, o \in DOMAIN fullCanvas :
          /\ InRect(p, args.rawFrames[i].dims)
          /\ PatchPixel(args.rawFrames[i], p) = Transparent
          /\ fullCanvas[p] = Red
          /\ InRect(q, args.rawFrames[i].dims)
          /\ fullCanvas[q] = Blue
          /\ ~InRect(o, args.rawFrames[i].dims)
          /\ fullCanvas[o] = Red

\* C23: a frame of disposal type 3 (restore previous), 1 (none) or 0
\* (unspecified) clears nothing when it is composited, and nothing is
\* cleared or restored on its behalf when the next frame is composited: the
\* next frame changes the canvas only inside its own rectangle.
C23_OtherDisposalsAreNoOps ==
    [][Composited =>
          /\ args.rawFrames[i + 1].disposalType \in {0, 1, 3} =>
                \A p \in DOMAIN fullCanvas :
                    /\ fullCanvas[p] # Transparent => fullCanvas'[p] # Transparent
                    /\ fullCanvas'[p] # fullCanvas[p] =>
                          /\ InRect(p, args.rawFrames[i + 1].dims)
                          /\ fullCanvas'[p] = PatchPixel(args.rawFrames[i + 1], p)
          /\ (i >= 1 /\ args.rawFrames[i].disposalType \in {0, 1, 3}) =>
                \A p \in DOMAIN fullCanvas :
                    ~InRect(p, args.rawFrames[i + 1].dims) => fullCanvas'[p] = fullCanvas[p]]_vars

\* the second frame had disposal type 3 and the third frame was composited
\* after it: the canvas still shows the second frame's patch outside the
\* third frame's rectangle, and the first frame outside both
C23_Witness ==
    /\ pc = "loop" /\ i = 3
    /\ args.rawFrames[2].disposalType = 3
    /\ \E p, o \in DOMAIN fullCanvas :
          /\ InRect(p, args.rawFrames[2].dims)
          /\ ~InRect(p, args.rawFrames[3].dims)
          /\ fullCanvas[p] = PatchPixel(args.rawFrames[2], p)
          /\ ~InRect(o, args.rawFrames[2].dims)
          /\ ~InRect(o, args.rawFrames[3].dims)
          /\ fullCanvas[o] # Transparent
          /\ fullCanvas[o] # fullCanvas[p]

\* C24: every call (attempt) starts its frame loop on a fully transparent
\* full canvas of the source size, and after each raw frame its full canvas
\* is the one determined by the raw frames and the source size alone,
\* whatever the target size and quality of the call and whatever canvas an
\* earlier call left behind.
C24_ReconstructionIndependentOfAttempt ==
    [][/\ (pc = "fetch" /\ pc' = "loop") =>
              /\ DOMAIN fullCanvas' =
                     (0 .. args.originalWidth - 1) \X (0 .. args.originalHeight - 1)
              /\ \A p \in DOMAIN fullCanvas' : fullCanvas'[p] = Transparent
       /\ Composited =>
              fullCanvas' = FullCanvasAfter(args.rawFrames, i + 1,
                                            args.originalWidth, args.originalHeight)]_vars

\* a later call with another target size has composited its first raw frame
\* of two; the call before it left the canvas in a different state
C24_Witness ==
    /\ Len(calls) >= 1
    /\ calls[1].args.rawFrames = args.rawFrames
    /\ calls[1].args.targetWidth # args.targetWidth
    /\ pc = "loop" /\ i = 1
    /\ Len(args.rawFrames) = 2
    /\ fullCanvas # FullCanvasAfter(args.rawFrames, 2, args.originalWidth, args.originalHeight)
    /\ \E p \in DOMAIN fullCanvas : fullCanvas[p] # Transparent

\* C25 (as claimed): the application is never left in PROCESSING with
\* nothing in flight: while the status is PROCESSING, and no encode has
\* failed to complete, a file is being decoded or some export invocation is
\* still running an attempt; this holds on every exit path of the attempt
\* loop, the exhaustion of the 5 attempts included.
C25_NeverStuckInProcessing ==
    (/\ status = PROCESSING
     /\ uploads = {}
     /\ \A r \in 1 .. Len(runs) : runs[r].pc # "hung") =>
        \E r \in 1 .. Len(runs) : runs[r].pc \in {"fetch", "render"}

\* C26 (as claimed): whenever the status is COMPLETED a processed result
\* exists and the source dimensions and frames are still loaded; an export
\* that finishes after a reset neither completes nor publishes.
C26_CompletedHasResultAndSource ==
    status = COMPLETED =>
        /\ processedUrl # << >>
        /\ dims # << >>
        /\ Len(frames) > 0

\* C27 (as claimed): from one attempt of an export to the next, neither the
\* target width nor the target height increases, for every source size and
\* every over-budget blob size.
C27_TargetsNeverIncrease ==
    [][\A r \in 1 .. Len(runs) :
          (runs[r].pc = "render" /\ runs'[r].pc = "fetch") =>
              /\ runs'[r].currentW <= runs[r].currentW
              /\ runs'[r].currentH <= runs[r].currentH]_vars

RECURSIVE DelayOfRange(_, _, _)
\* the sum of the delays of the raw frames with 0-based indices a .. b
DelayOfRange(rawFrames, a, b) ==
    IF a > b THEN 0 ELSE rawFrames[a + 1].delay + DelayOfRange(rawFrames, a + 1, b)

RECURSIVE TotalDelay(_, _)
\* the sum of the delays of the first n frames handed to the encoder
TotalDelay(added, n) ==
    IF n = 0 THEN 0 ELSE added[n].delay + TotalDelay(added, n - 1)

\* C28: when the frame loop has ended, the frames handed to the encoder are
\* the raw frames at indices 0, frameSkip, 2*frameSkip, ..., each with the
\* summed delay of itself and the skipped frames after it, so the delays add
\* up to the total raw delay; the full canvas has been updated by every raw
\* frame, skipped or not.
C28_SkippedFramesKeepTimeAndState ==
    pc = "render" =>
        LET n    == Len(args.rawFrames)
            skip == args.frameSkip
        IN /\ Len(gifFrames) = (n + skip - 1) \div skip
           /\ \A k \in 1 .. Len(gifFrames) :
                  /\ gifFrames[k].index = (k - 1) * skip
                  /\ gifFrames[k].delay =
                         DelayOfRange(args.rawFrames, (k - 1) * skip,
                                      Min(k * skip, n) - 1)
           /\ TotalDelay(gifFrames, Len(gifFrames)) = DelayOfRange(args.rawFrames, 0, n - 1)
           /\ fullCanvas = FullCanvasAfter(args.rawFrames, n,
                                           args.originalWidth, args.originalHeight)

\* three raw frames were processed with frameSkip 2: two frames were handed
\* over, the first carries the delay of the skipped frame as well, and the
\* skipped frame changed the full canvas
C28_Witness ==
    /\ pc = "render"
    /\ args.frameSkip = 2 /\ Len(args.rawFrames) = 3
    /\ Len(gifFrames) = 2
    /\ gifFrames[1].delay = args.rawFrames[1].delay + args.rawFrames[2].delay
    /\ gifFrames[2].delay = args.rawFrames[3].delay
    /\ Composite(Composite(Canvas(3, 3), args.rawFrames[1]), args.rawFrames[3]) # fullCanvas

\* C29 (as claimed): once the editor has installed its initial polygon the
\* point list has at least 3 points, whatever drags, insertions and
\* deletions follow, deletions handled before the editor has re-rendered
\* with the updated list included.
C29_AtLeastThreePoints ==
    (Len(points) > 0 \/ Len(rendered.points) > 0) => Len(points) >= 3

\* C30: a mouse move changes at most the point the handler holds as active:
\* that point's new coordinates lie within 0 .. width and 0 .. height, the
\* number, order and ids of the points and all other points are unchanged;
\* a mouse move handled with no active point changes nothing.
C30_DragMovesOnlyActivePoint ==
    [][(\E pos \in MousePositions : handlePointMouseMove(pos)) =>
          IF rendered.activePointId = Null
          THEN points' = points
          ELSE /\ Len(points') = Len(points)
               /\ \A k \in 1 .. Len(points) :
                      /\ points'[k].id = points[k].id
                      /\ points[k].id # rendered.activePointId => points'[k] = points[k]
                      /\ points[k].id = rendered.activePointId =>
                             /\ 0 <= points'[k].x /\ points'[k].x <= 10 * dims[1].width
                             /\ 0 <= points'[k].y /\ points'[k].y <= 10 * dims[1].height]_vars

\* the dragged point has been moved to the left edge by a mouse position
\* left of the image; the other three points are where they were installed
C30_Witness ==
    /\ Len(points) = 4
    /\ rendered.activePointId # Null
    /\ \E k \in 1 .. 4 :
          /\ points[k].id = rendered.activePointId
          /\ points[k].x = 0 /\ points[k].y = 100
          /\ points[k] # InitialPoints(dims[1].width, dims[1].height)[k]
          /\ \A j \in (1 .. 4) \ {k} :
                 points[j] = InitialPoints(dims[1].width, dims[1].height)[j]

\* C10 (as claimed): disposal is applied one step behind.  After raw frame
\* n (n >= 1) was composited, with frame n-1 of disposal type 2, the full
\* canvas is transparent wherever frame n-1's rectangle is not covered by
\* frame n's rectangle; frame n-1's own bitmap showed its patch.
C10_DisposalOneStepBehind ==
    (pc = "loop" /\ i >= 2 /\ args.rawFrames[i - 1].disposalType = 2) =>
        \A p \in DOMAIN fullCanvas :
            (InRect(p, args.rawFrames[i - 1].dims) /\ ~InRect(p, args.rawFrames[i].dims)) =>
                fullCanvas[p] = Transparent

====
